---------------------------- MODULE Spec2Model ----------------------------
(***************************************************************************)
(* Model of the provider router (src/data/provider_router.py), of the gate *)
(* evaluation engine (src/triggers/gates.py, src/models/sharpe_engine.py)  *)
(* of the feature computations (src/features), of the providers            *)
(* (src/data/providers), of the watcher (src/app/watcher.py) and of the    *)
(* refresh script (src/data/refresh_all.py).                               *)
(*                                                                         *)
(* Strings of the environment are sequences of tokens: a word, a comma or  *)
(* a blank.  Messages are sequences of text fragments, so that "the        *)
(* message contains X" is a statement about its fragments.  Decimal        *)
(* inputs of the gates are integers counting hundredths (0.15 is 15);      *)
(* EMBI levels and trends are integers counting basis points.              *)
(***************************************************************************)
EXTENDS Integers, Sequences, FiniteSets, TLC

VARIABLES
    pc,              \* position of fetch_series: idle, loop, returned, raised
    series_code,     \* argument of the current fetch_series call
    provider_names,  \* the parsed priority list of the current call
    idx,             \* position of the for loop in provider_names (1-based)
    last_error,      \* NONE or Some(message of the last error seen)
    ret,             \* NONE or Some(rows returned by fetch_series)
    exc,             \* NONE or Some(message of the ProviderError raised)
    calls,           \* provider invocations of the current call, in order
    gate_fn,         \* the gate function last called ("none" before any call)
    gate_args,       \* its arguments
    gate_ret,        \* its return value ("none" when it raised)
    gate_exc,        \* the exception it raised ("none" when it returned)
    fact_series,     \* the rows <<series_id, ts, value>> of table fact_series
    state_tracking,  \* NONE or Some(value of key last_overall_state)
    watch_log,       \* what the latest check_and_alert run did, in order
    watch_runs       \* the number of check_and_alert runs made

routerVars == <<pc, series_code, provider_names, idx, last_error, ret, exc, calls>>
gateVars == <<gate_fn, gate_args, gate_ret, gate_exc>>
vars == <<pc, series_code, provider_names, idx, last_error, ret, exc, calls,
          gate_fn, gate_args, gate_ret, gate_exc, fact_series,
          state_tracking, watch_log, watch_runs>>
watcherVars == <<state_tracking, watch_log, watch_runs>>

----------------------------------------------------------------------------
(* Bounds and input sets *)

MaxEnvLen == 6
\* Gate inputs are sampled within GridRadius of each threshold.
GridRadius == 1

EnvWords == {"BCRA", "INDEC", "IMF"}
EnvTokens == EnvWords \cup {",", " "}
EnvStrings == UNION {[1..n -> EnvTokens] : n \in 0..MaxEnvLen}
SeriesCodes == {"USDARS_OFFICIAL", "UNKNOWN_SERIES"}

NONE == <<>>
Some(x) == <<x>>

\* No call has been made yet.  The router and the gates share no state and keep
\* nothing between calls, so a behaviour is one call of one of them.
Idle == pc = "idle" /\ gate_fn = "none"

\* Non-empty results a provider may return: lists of (timestamp, value).
Rows == {<< <<1, 100>> >>, << <<1, 100>>, <<2, 150>> >>}

Around(t) == (t - GridRadius)..(t + GridRadius)
FxGapInputs == Around(15) \cup Around(25) \cup {10, 30, 40}
ReservesInputs == Around(3) \cup Around(0) \cup {-5, 5}
CpiInputs == Around(25) \cup Around(35) \cup {20, 50}
EmbiLevelInputs == Around(1400) \cup Around(1600) \cup {1300, 1500, 1700, 1800}
EmbiTrendInputs == Around(-300) \cup Around(-100) \cup {-400, -50, 0, 100, 200}

\* Inputs of the Sharpe engine: thousandths for returns, volatilities and
\* rates, tenths for k, fractions <<n, d>> for Sharpe ratios.
ExpReturnInputs == {-400, 0, 45, 120, 500}
VolInputs == {-180, 0, 1, 180}
RfInputs == {0, 45}
KInputs == {-20, 0, 10, 20}
SharpeInputs ==
    {<<n, 1>> : n \in {-400, -355, -354, -100, -1, 0, 1, 100, 400}}
        \cup {<<75, 180>>, <<-3, 10>>}

\* Gate inputs of evaluate_states: one value inside GREEN and the two
\* thresholds of every dimension.
StatesFxGapInputs == {10, 15, 25}
StatesReservesInputs == {5, 3, 0}
StatesCpiInputs == {20, 25, 35}
StatesEmbiLevelInputs == {1300, 1400, 1600}
StatesEmbiTrendInputs == {-400, -300, -100, 0}

\* Timestamps are integers counting days.  A table holds at most one row per
\* (series_id, ts), its primary key.
MaxDay == 2
FxDays == 1..MaxDay
ParallelValues == {1500}
OfficialValues == {1000, 1200}
BluelyticsValues == {1100}
ReservesDays == {0, 27, 28, 29, 57}
ReservesValues == {0, 200, 210}

\* Every content of one series over the given days and values.
SeriesTables(series_id, days, values) ==
    UNION { { {<<series_id, d, f[d]>> : d \in D} : f \in [D -> values] } :
            D \in SUBSET days }

FxDatabases ==
    { p \cup o \cup b :
        p \in SeriesTables("USDARS_PARALLEL", FxDays, ParallelValues),
        o \in SeriesTables("USDARS_OFFICIAL", FxDays, OfficialValues),
        b \in SeriesTables("USDARS_OFFICIAL_BLUELYTICS", FxDays, BluelyticsValues) }

ReservesDatabases == SeriesTables("RESERVES_USD", ReservesDays, ReservesValues)

\* Timestamps of CPI_CORE rows count hours, so that two observations of one
\* day are distinct rows.
CpiTimes == {0, 12, 720, 2160}
CpiValues == {0, 100, 110}
CpiDatabases == SeriesTables("CPI_CORE", CpiTimes, CpiValues)

\* Inputs of a provider's fetch_timeseries: the code asked for and what the
\* network does during the call.
ProviderSeriesCodes ==
    {"USDARS_OFFICIAL", "CPI_NATIONAL_INDEX", "USDARS_PARALLEL", "UNKNOWN_SERIES"}
NetworkStates == {"up", "down", "http_error"}

\* Databases of the watcher: every series is absent or present; the FX rates
\* present give a gap of 0.10 or of 0.50.
MaxRuns == 2
WatchFxParts ==
    { {},
      {<<"USDARS_PARALLEL", 1, 1500>>},
      {<<"USDARS_PARALLEL", 1, 1100>>, <<"USDARS_OFFICIAL", 1, 1000>>},
      {<<"USDARS_PARALLEL", 1, 1500>>, <<"USDARS_OFFICIAL", 1, 1000>>} }
WatchReservesParts ==
    { {}, {<<"RESERVES_USD", 0, 200>>, <<"RESERVES_USD", 28, 210>>} }
WatchCpiParts ==
    { {}, {<<"CPI_CORE", 0, 100>>, <<"CPI_CORE", 2160, 105>>} }
WatchEmbiParts ==
    { {},
      {<<"EMBI_AR", 30, 1300>>},
      {<<"EMBI_AR", 0, 1350>>, <<"EMBI_AR", 30, 1300>>} }
WatcherDatabases ==
    { f \cup r \cup c \cup m :
        f \in WatchFxParts, r \in WatchReservesParts,
        c \in WatchCpiParts, m \in WatchEmbiParts }

----------------------------------------------------------------------------
(* provider_router.py *)

DEFAULT_ORDER ==
    <<"BCRA", ",", "INDEC", ",", "BLUELYTICS", ",", "YAHOOFX", ",", "IMF", ",", "TE">>

\* The keys of the provider registry.
PROVIDERS == {"BCRA", "INDEC", "YAHOOFX", "BLUELYTICS"}

\* os.getenv("PREFERRED_PROVIDERS", DEFAULT_ORDER): env is NONE when unset.
GetEnv(env) == IF env = NONE THEN DEFAULT_ORDER ELSE env[1]

\* str.split(","): always at least one field.
RECURSIVE Split(_)
Split(s) ==
    IF \A k \in 1..Len(s) : s[k] # ","
    THEN <<s>>
    ELSE LET k == CHOOSE j \in 1..Len(s) :
                      s[j] = "," /\ \A m \in 1..(j - 1) : s[m] # ","
         IN <<SubSeq(s, 1, k - 1)>> \o Split(SubSeq(s, k + 1, Len(s)))

\* str.strip() on a field: leading and trailing blanks removed.
RECURSIVE Strip(_)
Strip(f) ==
    IF f = <<>> THEN f
    ELSE IF f[1] = " " THEN Strip(Tail(f))
    ELSE IF f[Len(f)] = " " THEN Strip(SubSeq(f, 1, Len(f) - 1))
    ELSE f

\* The field's tokens as one string.
RECURSIVE Text(_)
Text(f) == IF f = <<>> THEN "" ELSE f[1] \o Text(Tail(f))

\* provider_names = [p.strip() for p in preferred.split(",")]
ParseNames(preferred) ==
    LET fields == Split(preferred)
    IN [k \in 1..Len(fields) |-> Text(Strip(fields[k]))]

\* ', '.join(provider_names), as message fragments.
RECURSIVE Join(_)
Join(names) ==
    IF names = <<>> THEN <<>>
    ELSE IF Len(names) = 1 THEN <<names[1]>>
    ELSE <<names[1], ", ">> \o Join(Tail(names))

\* What a provider's ProviderError may say: the concrete providers prefix
\* their class name (BCRAProvider, INDECProvider), others do not.
ProviderErrorTexts(name, code) ==
    { <<name, "Provider: unknown series_code=", code>>, <<"HTTP 500">> }

\* What an exception that is no ProviderError may say.
ExceptionTexts == { <<"connection reset">> }

UnexpectedMsg(name, text) == <<"Unexpected error from ", name, ": ">> \o text

AllFailedMsg(code, err) ==
    <<"All providers failed for series_code=", code, ". Last error: ">> \o err

\* Mutant: the message leaves out the candidate list.
NoProvidersMsg_NoList(code, names) ==
    <<"No providers available for series_code=", code>>

NoProvidersMsg(code, names) ==
    <<"No providers available for series_code=", code, ". Tried: ">> \o Join(names)

CallRecord(pos, name, outcome, rows, text) ==
    [pos |-> pos, name |-> name, outcome |-> outcome, rows |-> rows, text |-> text]

\* fetch_series is entered: the priority list is read and parsed.
FetchSeries(code, env) ==
    /\ pc' = "loop"
    /\ series_code' = code
    /\ provider_names' = ParseNames(GetEnv(env))
    /\ idx' = 1
    /\ last_error' = NONE
    /\ ret' = NONE
    /\ exc' = NONE
    /\ calls' = <<>>
    /\ UNCHANGED <<gateVars, fact_series, watcherVars>>

\* A caller calls fetch_series with some series code, under some environment.
CallFetchSeries ==
    /\ Idle
    /\ \E code \in SeriesCodes, env \in {NONE} \cup {Some(s) : s \in EnvStrings} :
           FetchSeries(code, env)

InLoop == pc = "loop" /\ idx <= Len(provider_names)

\* Mutant: an unregistered name is recorded as an error.
SkipUnregistered_RecordsError ==
    /\ InLoop
    /\ provider_names[idx] \notin PROVIDERS
    /\ idx' = idx + 1
    /\ last_error' = Some(<<"unknown provider ", provider_names[idx]>>)
    /\ UNCHANGED <<pc, series_code, provider_names, ret, exc, calls>>
    /\ UNCHANGED <<gateVars, fact_series, watcherVars>>

\* if provider_name not in PROVIDERS: continue
SkipUnregistered ==
    /\ InLoop
    /\ provider_names[idx] \notin PROVIDERS
    /\ idx' = idx + 1
    /\ UNCHANGED <<pc, series_code, provider_names, last_error, ret, exc, calls>>
    /\ UNCHANGED <<gateVars, fact_series, watcherVars>>

\* Mutant: the non-empty result is stored but the loop goes on.
ReturnOnData_KeepLooping(rows) ==
    /\ ret' = Some(rows)
    /\ idx' = idx + 1
    /\ calls' = Append(calls, CallRecord(idx, provider_names[idx], "data", rows, <<>>))
    /\ UNCHANGED <<pc, series_code, provider_names, last_error, exc>>

\* The provider returns a non-empty result: return result.
ReturnOnData(rows) ==
    /\ pc' = "returned"
    /\ ret' = Some(rows)
    /\ calls' = Append(calls, CallRecord(idx, provider_names[idx], "data", rows, <<>>))
    /\ UNCHANGED <<series_code, provider_names, idx, last_error, exc>>

ProviderReturnsData ==
    /\ InLoop
    /\ provider_names[idx] \in PROVIDERS
    /\ \E rows \in Rows : ReturnOnData(rows)
    /\ UNCHANGED <<gateVars, fact_series, watcherVars>>

\* Mutant: an empty result is recorded as an error.
ContinueOnEmpty_RecordsError ==
    /\ last_error' = Some(<<"empty result from ", provider_names[idx]>>)
    /\ idx' = idx + 1
    /\ calls' = Append(calls, CallRecord(idx, provider_names[idx], "empty", <<>>, <<>>))
    /\ UNCHANGED <<pc, series_code, provider_names, ret, exc>>

\* Mutant: an empty result is returned to the caller.
ContinueOnEmpty_ReturnsEmpty ==
    /\ pc' = "returned"
    /\ ret' = Some(<<>>)
    /\ calls' = Append(calls, CallRecord(idx, provider_names[idx], "empty", <<>>, <<>>))
    /\ UNCHANGED <<series_code, provider_names, idx, last_error, exc>>

\* The provider returns an empty result: continue.
ContinueOnEmpty ==
    /\ idx' = idx + 1
    /\ calls' = Append(calls, CallRecord(idx, provider_names[idx], "empty", <<>>, <<>>))
    /\ UNCHANGED <<pc, series_code, provider_names, last_error, ret, exc>>

ProviderReturnsEmpty ==
    /\ InLoop
    /\ provider_names[idx] \in PROVIDERS
    /\ ContinueOnEmpty
    /\ UNCHANGED <<gateVars, fact_series, watcherVars>>

\* Mutant: after a ProviderError the next name of the list is passed over.
CatchProviderError_SkipsNext(text) ==
    /\ last_error' = Some(text)
    /\ idx' = idx + 2
    /\ calls' = Append(calls,
                       CallRecord(idx, provider_names[idx], "ProviderError", <<>>, text))
    /\ UNCHANGED <<pc, series_code, provider_names, ret, exc>>

\* except ProviderError as e: last_error = e; continue
CatchProviderError(text) ==
    /\ last_error' = Some(text)
    /\ idx' = idx + 1
    /\ calls' = Append(calls,
                       CallRecord(idx, provider_names[idx], "ProviderError", <<>>, text))
    /\ UNCHANGED <<pc, series_code, provider_names, ret, exc>>

ProviderRaisesProviderError ==
    /\ InLoop
    /\ provider_names[idx] \in PROVIDERS
    /\ \E text \in ProviderErrorTexts(provider_names[idx], series_code) :
           CatchProviderError(text)
    /\ UNCHANGED <<gateVars, fact_series, watcherVars>>

\* Mutant: only ProviderError is caught; any other exception leaves fetch_series.
CatchException_Propagate(text) ==
    /\ pc' = "raised"
    /\ exc' = Some(text)
    /\ calls' = Append(calls,
                       CallRecord(idx, provider_names[idx], "Exception", <<>>, text))
    /\ UNCHANGED <<series_code, provider_names, idx, last_error, ret>>

\* except Exception as e: last_error = ProviderError("Unexpected error ..."); continue
CatchException(text) ==
    /\ last_error' = Some(UnexpectedMsg(provider_names[idx], text))
    /\ idx' = idx + 1
    /\ calls' = Append(calls,
                       CallRecord(idx, provider_names[idx], "Exception", <<>>, text))
    /\ UNCHANGED <<pc, series_code, provider_names, ret, exc>>

ProviderRaisesException ==
    /\ InLoop
    /\ provider_names[idx] \in PROVIDERS
    /\ \E text \in ExceptionTexts : CatchException(text)
    /\ UNCHANGED <<gateVars, fact_series, watcherVars>>

\* After the loop: raise the aggregate ProviderError.
AggregateMsg ==
    IF last_error # NONE
    THEN AllFailedMsg(series_code, last_error[1])
    ELSE NoProvidersMsg(series_code, provider_names)

RaiseAggregate ==
    /\ pc = "loop"
    /\ idx > Len(provider_names)
    /\ pc' = "raised"
    /\ exc' = Some(AggregateMsg)
    /\ UNCHANGED <<series_code, provider_names, idx, last_error, ret, calls>>
    /\ UNCHANGED <<gateVars, fact_series, watcherVars>>

----------------------------------------------------------------------------
(* Properties of fetch_series *)

Last(q) == q[Len(q)]

\* The fragments of names appear in msg, in this order.
RECURSIVE IsSubseq(_, _)
IsSubseq(names, msg) ==
    IF names = <<>> THEN TRUE
    ELSE IF msg = <<>> THEN FALSE
    ELSE IF msg[1] = names[1] THEN IsSubseq(Tail(names), Tail(msg))
    ELSE IsSubseq(names, Tail(msg))

Contains(msg, fragment) == \E k \in 1..Len(msg) : msg[k] = fragment

RegisteredPositions ==
    {k \in 1..Len(provider_names) : provider_names[k] \in PROVIDERS}
CalledPositions == {calls[j].pos : j \in 1..Len(calls)}
Raising == {"ProviderError", "Exception"}

\* C1: fetch_series short-circuits on the first success.  A provider that
\* returns a non-empty result is the last provider invoked in the call, the
\* call has returned, and it has returned exactly that provider's result; no
\* provider at a later position of the priority list has been invoked.
C1_ShortCircuit ==
    /\ \A j \in 1..Len(calls) :
           calls[j].outcome = "data" =>
               /\ j = Len(calls)
               /\ pc = "returned"
               /\ calls[j].rows # <<>>
               /\ ret = Some(calls[j].rows)
    /\ pc = "returned" =>
           /\ calls # <<>>
           /\ Last(calls).outcome = "data"
           /\ \A j \in 1..Len(calls) : calls[j].pos <= Last(calls).pos

\* Providers [A returns empty, B returns non-empty, C registered]: B's result
\* has been returned and C was not invoked.
C1_Witness ==
    /\ pc = "returned"
    /\ Len(provider_names) >= 3
    /\ provider_names[3] \in PROVIDERS
    /\ Len(calls) = 2
    /\ calls[1].pos = 1 /\ calls[1].outcome = "empty"
    /\ calls[2].pos = 2 /\ calls[2].outcome = "data"
    /\ ret = Some(calls[2].rows)

\* C2: an exception raised by a provider, ProviderError or not, makes the loop
\* continue with the next name.  The only exception that leaves fetch_series is
\* the aggregate ProviderError, raised after the loop is over, when every
\* registered candidate has been invoked without a non-empty result.
C2_ExceptionsTryNext ==
    /\ \A j \in 1..Len(calls) :
           calls[j].outcome \in Raising => idx > calls[j].pos
    /\ exc # NONE =>
           /\ pc = "raised"
           /\ idx = Len(provider_names) + 1
           /\ exc[1][1] \in {"All providers failed for series_code=",
                             "No providers available for series_code="}
           /\ CalledPositions = RegisteredPositions
           /\ \A j \in 1..Len(calls) : calls[j].outcome # "data"

\* A call in which one provider raised ProviderError and another raised some
\* other exception has ended with the aggregate error.
C2_Witness ==
    /\ pc = "raised"
    /\ \E j \in 1..Len(calls) : calls[j].outcome = "ProviderError"
    /\ \E j \in 1..Len(calls) : calls[j].outcome = "Exception"

\* C3: a provider that returns an empty result is not terminal and is not
\* recorded as an error.  The step in which it returns leaves last_error as it
\* was, returns and raises nothing, and moves the loop to the next position.
C3_EmptyIsNotAnError ==
    [][ (Len(calls') = Len(calls) + 1 /\ Last(calls').outcome = "empty") =>
            /\ pc' = "loop"
            /\ idx' = idx + 1
            /\ last_error' = last_error
            /\ ret' = NONE
            /\ exc' = NONE ]_vars

\* An earlier provider's error is still the last error after a later provider
\* returned empty, and a registered candidate is next.
C3_Witness ==
    /\ pc = "loop"
    /\ Len(calls) >= 2
    /\ calls[Len(calls) - 1].outcome = "ProviderError"
    /\ Last(calls).outcome = "empty"
    /\ last_error = Some(calls[Len(calls) - 1].text)
    /\ idx <= Len(provider_names)
    /\ provider_names[idx] \in PROVIDERS

\* C4 (as the specification states it): when every invoked provider raised
\* ProviderError, the aggregate error's message contains the series code and
\* the names of the providers attempted, in priority order.
C4_AllFailedMessageNamesProviders ==
    ( /\ pc = "raised"
      /\ calls # <<>>
      /\ \A j \in 1..Len(calls) : calls[j].outcome = "ProviderError" ) =>
        /\ Contains(exc[1], series_code)
        /\ IsSubseq([j \in 1..Len(calls) |-> calls[j].name], exc[1])

\* C5: a name of the priority list that is not in the registry is skipped
\* silently.  No provider is ever invoked under such a name, and the step that
\* meets the name records no error, returns and raises nothing, and moves the
\* loop to the next position, so later registered providers are still tried.
C5_UnregisteredSkipped ==
    /\ [](\A j \in 1..Len(calls) : calls[j].name \in PROVIDERS)
    /\ [][ (InLoop /\ provider_names[idx] \notin PROVIDERS) =>
               /\ calls' = calls
               /\ last_error' = last_error
               /\ provider_names' = provider_names
               /\ pc' = "loop"
               /\ idx' = idx + 1
               /\ ret' = NONE
               /\ exc' = NONE ]_vars

\* The list [unregistered, registered] where the registered provider has data:
\* the call returned that provider's data and saw no error.
C5_Witness ==
    /\ pc = "returned"
    /\ Len(provider_names) = 2
    /\ provider_names[1] \notin PROVIDERS
    /\ Len(calls) = 1
    /\ calls[1].pos = 2
    /\ ret = Some(calls[1].rows)
    /\ last_error = NONE

\* C6: when no name of the priority list is registered (an empty setting parses
\* to the single name ""), fetch_series invokes no provider, does not return,
\* and the error it raises is the "no providers" form: it names the series code
\* and the candidate list tried, and carries no "last error".
C6_NoProviders ==
    (pc # "idle" /\ RegisteredPositions = {}) =>
        /\ calls = <<>>
        /\ pc # "returned"
        /\ last_error = NONE
        /\ pc = "raised" =>
               /\ exc # NONE
               /\ exc[1][1] = "No providers available for series_code="
               /\ exc[1][2] = series_code
               /\ IsSubseq(provider_names, exc[1])
               /\ ~Contains(exc[1], ". Last error: ")

\* A list holding an unregistered word and an empty name has been exhausted.
C6_Witness ==
    /\ pc = "raised"
    /\ RegisteredPositions = {}
    /\ \E k \in 1..Len(provider_names) : provider_names[k] = "IMF"
    /\ \E k \in 1..Len(provider_names) : provider_names[k] = ""

\* C25: fetch_series invokes providers strictly sequentially in priority-list
\* order: the provider at a list position is invoked only after every
\* registered provider at an earlier position has been invoked in that call and
\* has returned an empty result or raised; each position is invoked at most
\* once, so a call makes at most as many invocations as the list has names, and
\* then returns or raises.
C25_SequentialInListOrder ==
    /\ [](/\ \A j, k \in 1..Len(calls) : j < k => calls[j].pos < calls[k].pos
          /\ \A j \in 1..Len(calls) :
                 /\ calls[j].pos \in RegisteredPositions
                 /\ calls[j].name = provider_names[calls[j].pos]
                 /\ \A q \in RegisteredPositions :
                        q < calls[j].pos =>
                            \E i \in 1..(j - 1) :
                                /\ calls[i].pos = q
                                /\ calls[i].outcome \in {"empty"} \cup Raising
          /\ Len(calls) <= Len(provider_names))
    /\ [][ /\ Len(calls') <= Len(calls) + 1
           /\ InLoop => (pc' \in {"returned", "raised"} \/ (pc' = "loop" /\ idx' = idx + 1))
           /\ (pc = "loop" /\ idx > Len(provider_names)) => pc' = "raised"
           /\ pc \in {"returned", "raised"} => UNCHANGED routerVars ]_vars

\* Three registered providers invoked one after the other: the first returned
\* empty, the second raised, the third returned data.
C25_Witness ==
    /\ pc = "returned"
    /\ Len(calls) = 3
    /\ calls[1].outcome = "empty"
    /\ calls[2].outcome \in Raising
    /\ calls[3].outcome = "data"
    /\ calls[1].pos < calls[2].pos
    /\ calls[2].pos < calls[3].pos

\* C28: fetch_series never returns an empty list: a call either returns a
\* non-empty result produced by exactly one provider, or raises ProviderError;
\* when every registered provider returns an empty result without raising, the
\* call fails rather than returning empty.
C28_NeverReturnsEmpty ==
    /\ pc = "returned" =>
           /\ ret # NONE
           /\ ret[1] # <<>>
           /\ exc = NONE
           /\ Cardinality({j \in 1..Len(calls) : calls[j].outcome = "data"}) = 1
           /\ \E j \in 1..Len(calls) : calls[j].outcome = "data" /\ calls[j].rows = ret[1]
    /\ pc = "raised" => ret = NONE /\ exc # NONE
    /\ pc \in {"idle", "loop"} => ret = NONE /\ exc = NONE
    /\ (pc \in {"returned", "raised"}
            /\ \A j \in 1..Len(calls) : calls[j].outcome = "empty") => pc = "raised"
    /\ (pc = "loop" /\ idx > Len(provider_names)) => ENABLED RaiseAggregate

\* Two registered providers both returned an empty result: the call raised.
C28_Witness ==
    /\ pc = "raised"
    /\ Len(calls) = 2
    /\ \A j \in 1..Len(calls) : calls[j].outcome = "empty"
    /\ ret = NONE

----------------------------------------------------------------------------
(* gates.py *)

\* Mutant: the GREEN bound of the FX gap is inclusive.
evaluate_fx_gap_state_InclusiveGreen(fx_gap) ==
    IF fx_gap <= 15 THEN "GREEN"
    ELSE IF fx_gap < 25 THEN "YELLOW"
    ELSE "RED"

evaluate_fx_gap_state(fx_gap) ==
    IF fx_gap < 15 THEN "GREEN"
    ELSE IF fx_gap < 25 THEN "YELLOW"
    ELSE "RED"

\* Mutant: the soft band of reserves momentum includes zero.
evaluate_reserves_momentum_state_ZeroIsYellow(reserves_mom_4w) ==
    IF reserves_mom_4w > 3 THEN "GREEN"
    ELSE IF reserves_mom_4w >= 0 THEN "YELLOW"
    ELSE "RED"

evaluate_reserves_momentum_state(reserves_mom_4w) ==
    IF reserves_mom_4w > 3 THEN "GREEN"
    ELSE IF reserves_mom_4w > 0 THEN "YELLOW"
    ELSE "RED"

\* Mutant: the soft band of core CPI includes its upper bound.
evaluate_cpi_state_InclusiveSoft(core_cpi_3m_ann) ==
    IF core_cpi_3m_ann < 25 THEN "GREEN"
    ELSE IF core_cpi_3m_ann <= 35 THEN "YELLOW"
    ELSE "RED"

evaluate_cpi_state(core_cpi_3m_ann) ==
    IF core_cpi_3m_ann < 25 THEN "GREEN"
    ELSE IF core_cpi_3m_ann < 35 THEN "YELLOW"
    ELSE "RED"

\* Mutant: the trend bound of GREEN is inclusive.
evaluate_embi_state_InclusiveTrend(embi_level, embi_trend_30d) ==
    IF embi_level < 1400 \/ embi_trend_30d <= -300 THEN "GREEN"
    ELSE IF embi_level < 1600 \/ embi_trend_30d < -100 THEN "YELLOW"
    ELSE "RED"

\* Mutant: EMBI is GREEN by its level only.
evaluate_embi_state_LevelOnly(embi_level, embi_trend_30d) ==
    IF embi_level < 1400 THEN "GREEN"
    ELSE IF embi_level < 1600 \/ embi_trend_30d < -100 THEN "YELLOW"
    ELSE "RED"

evaluate_embi_state(embi_level, embi_trend_30d) ==
    IF embi_level < 1400 \/ embi_trend_30d < -300 THEN "GREEN"
    ELSE IF embi_level < 1600 \/ embi_trend_30d < -100 THEN "YELLOW"
    ELSE "RED"

\* The four per-dimension states, in the order of the list `states`.
DimensionStates(fx_gap, reserves_mom_4w, core_cpi_3m_ann, embi_level, embi_trend_30d) ==
    << evaluate_fx_gap_state(fx_gap),
       evaluate_reserves_momentum_state(reserves_mom_4w),
       evaluate_cpi_state(core_cpi_3m_ann),
       evaluate_embi_state(embi_level, embi_trend_30d) >>

\* Mutant: the FX gap bound of the GREEN rule is inclusive.
evaluate_overall_state_InclusiveGap(fx_gap, reserves_mom_4w, core_cpi_3m_ann, embi_level, embi_trend_30d) ==
    LET gap_ok == fx_gap <= 15 /\ reserves_mom_4w > 3
        cpi_ok == core_cpi_3m_ann < 25
        embi_ok == embi_level < 1400 \/ embi_trend_30d < -300
        states == DimensionStates(fx_gap, reserves_mom_4w, core_cpi_3m_ann,
                                  embi_level, embi_trend_30d)
    IN IF gap_ok /\ cpi_ok /\ embi_ok THEN "GREEN"
       ELSE IF \A k \in 1..4 : states[k] = "RED" THEN "RED"
       ELSE "YELLOW"

\* Mutant: the RED rule leaves the EMBI dimension out.
evaluate_overall_state_IgnoresEmbi(fx_gap, reserves_mom_4w, core_cpi_3m_ann, embi_level, embi_trend_30d) ==
    LET gap_ok == fx_gap < 15 /\ reserves_mom_4w > 3
        cpi_ok == core_cpi_3m_ann < 25
        embi_ok == embi_level < 1400 \/ embi_trend_30d < -300
        states == DimensionStates(fx_gap, reserves_mom_4w, core_cpi_3m_ann,
                                  embi_level, embi_trend_30d)
    IN IF gap_ok /\ cpi_ok /\ embi_ok THEN "GREEN"
       ELSE IF \A k \in 1..3 : states[k] = "RED" THEN "RED"
       ELSE "YELLOW"

\* Mutant: the overall state is the worst of the four dimensions.
evaluate_overall_state_WorstOf(fx_gap, reserves_mom_4w, core_cpi_3m_ann, embi_level, embi_trend_30d) ==
    LET gap_ok == fx_gap < 15 /\ reserves_mom_4w > 3
        cpi_ok == core_cpi_3m_ann < 25
        embi_ok == embi_level < 1400 \/ embi_trend_30d < -300
        states == DimensionStates(fx_gap, reserves_mom_4w, core_cpi_3m_ann,
                                  embi_level, embi_trend_30d)
    IN IF gap_ok /\ cpi_ok /\ embi_ok THEN "GREEN"
       ELSE IF \E k \in 1..4 : states[k] = "RED" THEN "RED"
       ELSE "YELLOW"

\* Mutant: the GREEN rule asks for low reserves momentum.
evaluate_overall_state_ReservesInverted(fx_gap, reserves_mom_4w, core_cpi_3m_ann, embi_level, embi_trend_30d) ==
    LET gap_ok == fx_gap < 15 /\ reserves_mom_4w < 3
        cpi_ok == core_cpi_3m_ann < 25
        embi_ok == embi_level < 1400 \/ embi_trend_30d < -300
        states == DimensionStates(fx_gap, reserves_mom_4w, core_cpi_3m_ann,
                                  embi_level, embi_trend_30d)
    IN IF gap_ok /\ cpi_ok /\ embi_ok THEN "GREEN"
       ELSE IF \A k \in 1..4 : states[k] = "RED" THEN "RED"
       ELSE "YELLOW"

evaluate_overall_state(fx_gap, reserves_mom_4w, core_cpi_3m_ann, embi_level, embi_trend_30d) ==
    LET gap_ok == fx_gap < 15 /\ reserves_mom_4w > 3
        cpi_ok == core_cpi_3m_ann < 25
        embi_ok == embi_level < 1400 \/ embi_trend_30d < -300
        states == DimensionStates(fx_gap, reserves_mom_4w, core_cpi_3m_ann,
                                  embi_level, embi_trend_30d)
    IN IF gap_ok /\ cpi_ok /\ embi_ok THEN "GREEN"
       ELSE IF \A k \in 1..4 : states[k] = "RED" THEN "RED"
       ELSE "YELLOW"

\* A caller calls one gate function, which returns its value.
GateCall(fn, args, result) ==
    /\ gate_fn' = fn
    /\ gate_args' = args
    /\ gate_ret' = result
    /\ gate_exc' = "none"
    /\ UNCHANGED <<routerVars, fact_series, watcherVars>>

\* A caller calls one function of the engine, which raises.
GateRaise(fn, args, exception) ==
    /\ gate_fn' = fn
    /\ gate_args' = args
    /\ gate_ret' = "none"
    /\ gate_exc' = exception
    /\ UNCHANGED <<routerVars, fact_series, watcherVars>>

CallEvaluateFxGapState ==
    /\ Idle
    /\ \E fx_gap \in FxGapInputs :
           GateCall("evaluate_fx_gap_state", <<fx_gap>>, evaluate_fx_gap_state(fx_gap))

CallEvaluateReservesMomentumState ==
    /\ Idle
    /\ \E mom \in ReservesInputs :
           GateCall("evaluate_reserves_momentum_state", <<mom>>,
                    evaluate_reserves_momentum_state(mom))

CallEvaluateCpiState ==
    /\ Idle
    /\ \E cpi \in CpiInputs :
           GateCall("evaluate_cpi_state", <<cpi>>, evaluate_cpi_state(cpi))

CallEvaluateEmbiState ==
    /\ Idle
    /\ \E level \in EmbiLevelInputs, trend \in EmbiTrendInputs :
           GateCall("evaluate_embi_state", <<level, trend>>,
                    evaluate_embi_state(level, trend))

CallEvaluateOverallState ==
    /\ Idle
    /\ \E fx_gap \in FxGapInputs, mom \in ReservesInputs, cpi \in CpiInputs,
          level \in EmbiLevelInputs, trend \in EmbiTrendInputs :
           GateCall("evaluate_overall_state", <<fx_gap, mom, cpi, level, trend>>,
                    evaluate_overall_state(fx_gap, mom, cpi, level, trend))

----------------------------------------------------------------------------
(* sharpe_engine.py *)

(* Returns, volatilities and risk-free rates are integers counting          *)
(* thousandths (0.045 is 45); the steepness k counts tenths (2.0 is 20).    *)
(* A Sharpe ratio is an exact fraction <<n, d>> with d > 0.  Position sizes *)
(* count ten-thousandths, hedge percentages count hundredths.  The values   *)
(* nan and inf are not modelled.                                            *)

\* One in the unit of position sizes.
Unit == 100 * 100

\* The outcome of a call: a value returned or an exception raised.
Returns(v) == [exc |-> "none", val |-> Some(v)]
Raises(e) == [exc |-> e, val |-> NONE]

RoundDiv(a, b) == (2 * a + b) \div (2 * b)
Max(a, b) == IF a >= b THEN a ELSE b
Min(a, b) == IF a <= b THEN a ELSE b

\* Mutant: the risk-free rate is not subtracted.
compute_sharpe_IgnoresRf(exp_return, vol, rf) ==
    IF vol = 0 THEN <<0, 1>>
    ELSE IF vol > 0 THEN <<exp_return, vol>>
    ELSE <<-exp_return, -vol>>

compute_sharpe(exp_return, vol, rf) ==
    IF vol = 0 THEN <<0, 1>>
    ELSE IF vol > 0 THEN <<exp_return - rf, vol>>
    ELSE <<-(exp_return - rf), -vol>>

\* Unit * e^(-f / Unit) for 0 <= f < Unit, by the alternating exponential
\* series: term(j) = term(j - 1) * f / (Unit * j).
RECURSIVE ExpSeries(_, _, _)
ExpSeries(f, j, term) ==
    IF term = 0 THEN 0
    ELSE LET next == RoundDiv(term * f, Unit * (j + 1))
         IN term - ExpSeries(f, j + 1, next)

\* v * e^(-n) for a natural n, rounded to the unit after every factor.
RECURSIVE ExpScale(_, _)
ExpScale(n, v) ==
    IF n = 0 \/ v = 0 THEN v
    ELSE ExpScale(n - 1, RoundDiv(v * 3679, Unit))

\* Unit * e^(-p / q) for p >= 0 and q > 0.
ExpDecay(p, q) ==
    LET n == p \div q
        f == ((p % q) * Unit) \div q
    IN IF n > 12 THEN 0 ELSE ExpScale(n, ExpSeries(f, 0, Unit))

\* math.exp(p / q) for q > 0, as a fraction <<num, den>> of position-size
\* units: e^x is ExpDecay / Unit for x <= 0 and Unit / ExpDecay for x > 0.
\* It raises OverflowError when the result exceeds the largest float, that is
\* when p / q > 709.78.
MathExp(p, q) ==
    IF 100 * p > 70978 * q THEN Raises("OverflowError")
    ELSE IF p <= 0 THEN Returns(<<ExpDecay(-p, q), Unit>>)
    ELSE Returns(<<Unit, ExpDecay(p, q)>>)

sigmoid_position_size(sharpe, k) ==
    LET e == MathExp(-(k * sharpe[1]), 10 * sharpe[2])
    IN IF e.exc # "none" THEN e
       ELSE LET num == e.val[1][1]
                den == e.val[1][2]
                raw_size == (den * Unit) \div (den + num)
            IN Returns(Max(0, Min(Unit, raw_size)))

\* Mutant: RED hedges in full.
compute_hedge_pct_RedFull(fx_state) ==
    IF fx_state = "GREEN" THEN 0
    ELSE IF fx_state = "RED" THEN 100
    ELSE 50

compute_hedge_pct(fx_state) ==
    IF fx_state = "GREEN" THEN 0 ELSE 50

\* Mutant: outside GREEN the position size is halved.
compute_allocation_StateScaled(exp_return, vol, rf, fx_state, k) ==
    LET sharpe == compute_sharpe(exp_return, vol, rf)
        position_size == sigmoid_position_size(sharpe, k)
        hedge_pct == compute_hedge_pct(fx_state)
    IN IF position_size.exc # "none" THEN position_size
       ELSE Returns([sharpe |-> sharpe,
                     position_size |->
                         IF fx_state = "GREEN" THEN position_size.val[1]
                         ELSE position_size.val[1] \div 2,
                     hedge_pct |-> hedge_pct])

compute_allocation(exp_return, vol, rf, fx_state, k) ==
    LET sharpe == compute_sharpe(exp_return, vol, rf)
        position_size == sigmoid_position_size(sharpe, k)
        hedge_pct == compute_hedge_pct(fx_state)
    IN IF position_size.exc # "none" THEN position_size
       ELSE Returns([sharpe |-> sharpe,
                     position_size |-> position_size.val[1],
                     hedge_pct |-> hedge_pct])

\* A call of the engine ends by returning or by raising.
GateOutcome(fn, args, outcome) ==
    IF outcome.exc = "none"
    THEN GateCall(fn, args, outcome.val[1])
    ELSE GateRaise(fn, args, outcome.exc)

CallComputeSharpe ==
    /\ Idle
    /\ \E exp_return \in ExpReturnInputs, vol \in VolInputs, rf \in RfInputs :
           GateCall("compute_sharpe", <<exp_return, vol, rf>>,
                    compute_sharpe(exp_return, vol, rf))

CallSigmoidPositionSize ==
    /\ Idle
    /\ \E sharpe \in SharpeInputs, k \in KInputs :
           GateOutcome("sigmoid_position_size", <<sharpe, k>>,
                       sigmoid_position_size(sharpe, k))

----------------------------------------------------------------------------
(* gates.py: generate_action_note and evaluate_states *)

\* The keys of dimension_states, in the order the dict is built.
DimensionKeys == <<"fx_gap", "reserves_momentum", "core_cpi", "embi">>

\* Mutant: every dimension that is not GREEN is listed.
RECURSIVE RedDims_NotGreen(_)
RedDims_NotGreen(dimension_states) ==
    IF dimension_states = <<>> THEN <<>>
    ELSE LET rest == RedDims_NotGreen(Tail(dimension_states))
         IN IF dimension_states[1][2] # "GREEN"
            THEN <<dimension_states[1][1]>> \o rest
            ELSE rest

\* [k for k, v in dimension_states.items() if v == FXState.RED]
RECURSIVE RedDims(_)
RedDims(dimension_states) ==
    IF dimension_states = <<>> THEN <<>>
    ELSE LET rest == RedDims(Tail(dimension_states))
         IN IF dimension_states[1][2] = "RED"
            THEN <<dimension_states[1][1]>> \o rest
            ELSE rest

\* f"{macro_weight:.1%}": the weight as a percentage with one decimal.
FormatPercent(macro_weight) ==
    LET tenths == RoundDiv(macro_weight * 1000, Unit)
    IN ToString(tenths \div 10) \o "." \o ToString(tenths % 10) \o "%"

\* The note as a sequence of text fragments.
generate_action_note(overall_state, dimension_states, macro_weight) ==
    LET red_dims == RedDims(dimension_states)
    IN IF overall_state = "GREEN"
       THEN <<"GREEN", ": Favorable conditions across key dimensions. ">> \o
            (IF 10 * macro_weight > 7 * Unit
             THEN <<"High conviction position recommended.">>
             ELSE IF 10 * macro_weight > 4 * Unit
             THEN <<"Moderate position size recommended.">>
             ELSE <<"Conservative position size despite favorable conditions.">>)
       ELSE IF overall_state = "YELLOW"
       THEN IF red_dims # <<>>
            THEN <<"YELLOW", ": Monitor closely. Risk areas: ">> \o Join(red_dims) \o
                 <<". Position size: ", FormatPercent(macro_weight), ".">>
            ELSE <<"YELLOW", ": Mixed signals. Cautious positioning recommended (weight: ",
                   FormatPercent(macro_weight), ").">>
       ELSE <<"RED", ": Elevated risks across ", ToString(Len(red_dims)),
              " dimension(s). Minimal or no position recommended. Risk areas: ">> \o
            Join(red_dims) \o <<".">>

\* The default steepness of compute_allocation, k = 2.0.
DefaultK == 2 * 10

evaluate_states(fx_gap, reserves_mom_4w, core_cpi_3m_ann, embi_level, embi_trend_30d, exp_return, vol, rf) ==
    LET states == DimensionStates(fx_gap, reserves_mom_4w, core_cpi_3m_ann,
                                  embi_level, embi_trend_30d)
        dimension_states == [j \in 1..4 |-> <<DimensionKeys[j], states[j]>>]
        overall_state == evaluate_overall_state(fx_gap, reserves_mom_4w, core_cpi_3m_ann,
                                                embi_level, embi_trend_30d)
        allocation == compute_allocation(exp_return, vol, rf, overall_state, DefaultK)
    IN IF allocation.exc # "none" THEN allocation
       ELSE LET macro_weight == allocation.val[1].position_size
            IN Returns([dimension_states |-> dimension_states,
                        overall_state |-> overall_state,
                        macro_weight |-> macro_weight,
                        action_note |-> generate_action_note(overall_state,
                                            dimension_states, macro_weight),
                        sharpe |-> allocation.val[1].sharpe,
                        hedge_pct |-> allocation.val[1].hedge_pct])

CallEvaluateStates ==
    /\ Idle
    /\ \E fx_gap \in StatesFxGapInputs, mom \in StatesReservesInputs,
          cpi \in StatesCpiInputs, level \in StatesEmbiLevelInputs,
          trend \in StatesEmbiTrendInputs,
          exp_return \in ExpReturnInputs, vol \in VolInputs, rf \in RfInputs :
           GateOutcome("evaluate_states",
                       <<fx_gap, mom, cpi, level, trend, exp_return, vol, rf>>,
                       evaluate_states(fx_gap, mom, cpi, level, trend,
                                       exp_return, vol, rf))

----------------------------------------------------------------------------
(* features/fx_gap.py and features/reserves_momentum.py *)

(* A query result is NONE (no row) or Some(<<ts, value>>).  compute returns *)
(* NONE for Python's None and Some(result) for a result object.  A ratio    *)
(* a / b is the pair <<a, b>>.                                              *)

\* SELECT ts, value FROM fact_series WHERE series_id = ? AND ts <= upto
\* ORDER BY ts DESC LIMIT 1
LatestUpTo(conn, series_id, upto) ==
    LET rows == {r \in conn : r[1] = series_id /\ r[2] <= upto}
    IN IF rows = {} THEN NONE
       ELSE LET row == CHOOSE r \in rows : \A o \in rows : o[2] <= r[2]
            IN Some(<<row[2], row[3]>>)

\* SELECT ts, value FROM fact_series WHERE series_id = ?
\* ORDER BY ts DESC LIMIT 1
Latest(conn, series_id) ==
    LET rows == {r \in conn : r[1] = series_id}
    IN IF rows = {} THEN NONE
       ELSE LET row == CHOOSE r \in rows : \A o \in rows : o[2] <= r[2]
            IN Some(<<row[2], row[3]>>)

\* fx_gap._get_latest_single: (ts, value), or (None, None) without a row.
get_latest_single(conn, series_id) ==
    LET row == Latest(conn, series_id)
    IN IF row = NONE THEN [ts |-> NONE, value |-> NONE]
       ELSE [ts |-> Some(row[1][1]), value |-> Some(row[1][2])]

\* a / b on floats.
Divide(a, b) == IF b = 0 THEN Raises("ZeroDivisionError") ELSE Returns(<<a, b>>)

\* features.fx_gap.compute
fx_gap_compute(conn) ==
    LET parallel == get_latest_single(conn, "USDARS_PARALLEL")
        primary == get_latest_single(conn, "USDARS_OFFICIAL")
        official == IF primary.value = NONE
                    THEN get_latest_single(conn, "USDARS_OFFICIAL_BLUELYTICS")
                    ELSE primary
        used_official == IF primary.value # NONE THEN Some("USDARS_OFFICIAL")
                         ELSE IF official.value # NONE
                         THEN Some("USDARS_OFFICIAL_BLUELYTICS")
                         ELSE NONE
    IN IF official.value = NONE \/ parallel.value = NONE
       THEN Returns(Some([official |-> official.value,
                          parallel |-> parallel.value,
                          gap |-> NONE,
                          official_ts |-> official.ts,
                          parallel_ts |-> parallel.ts,
                          status |-> "MISSING_DATA",
                          used_official |-> used_official]))
       ELSE LET gap_val == Divide(parallel.value[1] - official.value[1],
                                  official.value[1])
            IN IF gap_val.exc # "none" THEN gap_val
               ELSE Returns(Some([official |-> official.value,
                                  parallel |-> parallel.value,
                                  gap |-> gap_val.val,
                                  official_ts |-> official.ts,
                                  parallel_ts |-> parallel.ts,
                                  status |-> "OK",
                                  used_official |-> used_official]))

\* timedelta(days=28)
MomentumWindow == 28

\* Mutant: the past observation must be strictly older than 28 days.
reserves_momentum_compute_StrictWindow(conn) ==
    LET latest_result == Latest(conn, "RESERVES_USD")
    IN IF latest_result = NONE THEN Returns(NONE)
       ELSE LET latest_ts == latest_result[1][1]
                latest_value == latest_result[1][2]
                date_4w_ago == latest_ts - MomentumWindow
                past_result == LatestUpTo(conn, "RESERVES_USD", date_4w_ago - 1)
            IN IF past_result = NONE THEN Returns(NONE)
               ELSE LET past_value == past_result[1][2]
                        momentum == Divide(latest_value - past_value, past_value)
                    IN IF momentum.exc # "none" THEN momentum
                       ELSE Returns(Some([value |-> momentum.val[1],
                                          timestamp |-> latest_ts,
                                          reserves_current |-> latest_value,
                                          reserves_4w_ago |-> past_value]))

\* features.reserves_momentum.compute
reserves_momentum_compute(conn) ==
    LET latest_result == Latest(conn, "RESERVES_USD")
    IN IF latest_result = NONE THEN Returns(NONE)
       ELSE LET latest_ts == latest_result[1][1]
                latest_value == latest_result[1][2]
                date_4w_ago == latest_ts - MomentumWindow
                past_result == LatestUpTo(conn, "RESERVES_USD", date_4w_ago)
            IN IF past_result = NONE THEN Returns(NONE)
               ELSE LET past_value == past_result[1][2]
                        momentum == Divide(latest_value - past_value, past_value)
                    IN IF momentum.exc # "none" THEN momentum
                       ELSE Returns(Some([value |-> momentum.val[1],
                                          timestamp |-> latest_ts,
                                          reserves_current |-> latest_value,
                                          reserves_4w_ago |-> past_value]))

\* A caller computes a feature on a database.
FeatureCall(fn, conn, outcome) ==
    /\ fact_series' = conn
    /\ gate_fn' = fn
    /\ gate_args' = <<>>
    /\ gate_ret' = IF outcome.exc = "none" THEN outcome.val[1] ELSE "none"
    /\ gate_exc' = outcome.exc
    /\ UNCHANGED <<routerVars, watcherVars>>

CallFxGapCompute ==
    /\ Idle
    /\ \E conn \in FxDatabases :
           FeatureCall("fx_gap.compute", conn, fx_gap_compute(conn))

CallReservesMomentumCompute ==
    /\ Idle
    /\ \E conn \in ReservesDatabases :
           FeatureCall("reserves_momentum.compute", conn,
                       reserves_momentum_compute(conn))

----------------------------------------------------------------------------
(* app/watcher.py: the feature queries *)

\* SELECT ts, value ... WHERE series_id = ? ORDER BY ts DESC LIMIT 2
LatestTwo(conn, series_id) ==
    LET rows == {r \in conn : r[1] = series_id}
        first == CHOOSE r \in rows : \A o \in rows : o[2] <= r[2]
        rest == rows \ {first}
        second == CHOOSE r \in rest : \A o \in rest : o[2] <= r[2]
    IN IF rows = {} THEN <<>>
       ELSE IF rest = {} THEN << <<first[2], first[3]>> >>
       ELSE << <<first[2], first[3]>>, <<second[2], second[3]>> >>

\* (latest_ts - prev_ts).days
Days(hours) == hours \div 24

\* watcher.get_latest_core_cpi_3m_ann.  months is days_diff / 30.0, so 3 / months
\* is 90 / days_diff.  The rate returned, (1 + monthly_rate) ** (3 / months) - 1,
\* is kept as its base latest_value / prev_value and its exponent.
get_latest_core_cpi_3m_ann(conn) ==
    LET results == LatestTwo(conn, "CPI_CORE")
    IN IF Len(results) < 2 THEN Returns(NONE)
       ELSE LET days_diff == Days(results[1][1] - results[2][1])
            IN IF days_diff = 0 THEN Returns(NONE)
               ELSE LET monthly == Divide(results[1][2], results[2][2])
                    IN IF monthly.exc # "none" THEN monthly
                       ELSE Returns(Some([base |-> monthly.val[1],
                                          exponent |-> <<3 * 30, days_diff>>]))

CallGetLatestCoreCpi ==
    /\ Idle
    /\ \E conn \in CpiDatabases :
           FeatureCall("get_latest_core_cpi_3m_ann", conn,
                       get_latest_core_cpi_3m_ann(conn))

----------------------------------------------------------------------------
(* data/providers: fetch_timeseries of the registered providers *)

BCRA_SERIES == {"USDARS_OFFICIAL", "RESERVES_USD", "USDARS_RETAIL", "BADLAR_RATE", "TM20_RATE"}
INDEC_SERIES == {"CPI_NATIONAL_INDEX", "CPI_NATIONAL_YOY", "CPI_NATIONAL_MOM"}
YF_MAP == {"USDARS_OFFICIAL"}
NAME_MAP == {"USDARS_PARALLEL", "USDARS_BLUE", "USDARS_OFFICIAL_BLUELYTICS"}

\* The codes of a provider's internal mapping.
ProviderMapping(name) ==
    IF name = "BCRA" THEN BCRA_SERIES
    ELSE IF name = "INDEC" THEN INDEC_SERIES
    ELSE IF name = "YAHOOFX" THEN YF_MAP
    ELSE NAME_MAP

\* requests.get: the response arrives, or the request raises.
RequestsGet(network) ==
    IF network = "down" THEN Raises("ConnectionError") ELSE Returns(network)

\* What a parsed response may hold: no row, or rows.
ParsedRows == {<<>>} \cup Rows

\* BCRAProvider.fetch_timeseries: the mapping is looked up first; every
\* exception of the request and of the parsing is re-raised as ProviderError.
BCRAFetch(code, network) ==
    IF code \notin BCRA_SERIES THEN {Raises("ProviderError")}
    ELSE IF RequestsGet(network).exc # "none" THEN {Raises("ProviderError")}
    ELSE IF network = "http_error" THEN {Raises("ProviderError")}
    ELSE {Returns(r) : r \in ParsedRows} \cup {Raises("ProviderError")}

\* INDECProvider.fetch_timeseries: _resolve_series_id searches the API
\* (requests.get, raise_for_status) before series_code is looked at.
INDECFetch(code, network) ==
    LET search == RequestsGet(network)
    IN IF search.exc # "none" THEN {search}
       ELSE IF network = "http_error" THEN {Raises("HTTPError")}
       ELSE IF code \notin INDEC_SERIES THEN {Raises("ProviderError")}
       ELSE {Returns(r) : r \in ParsedRows} \cup {Raises("ProviderError")}

\* YahooFXProvider.fetch_timeseries: the mapping is looked up first; an
\* empty download is a ProviderError, an exception of yfinance propagates.
YahooFetch(code, network) ==
    IF code \notin YF_MAP THEN {Raises("ProviderError")}
    ELSE IF network # "up" THEN {Raises("ProviderError"), Raises("Exception")}
    ELSE {Returns(r) : r \in ParsedRows} \cup {Raises("ProviderError")}

\* BluelyticsProvider.fetch_timeseries without start and end: the mapping is
\* looked up first; the request to /latest is not guarded.
BluelyticsFetch(code, network) ==
    IF code \notin NAME_MAP THEN {Raises("ProviderError")}
    ELSE LET r == RequestsGet(network)
         IN IF r.exc # "none" THEN {r}
            ELSE IF network = "http_error" THEN {Raises("ProviderError")}
            ELSE {Returns(rows) : rows \in Rows} \cup {Raises("ProviderError")}

\* The outcomes of PROVIDERS[name].fetch_timeseries(code).
FetchTimeseries(name, code, network) ==
    IF name = "BCRA" THEN BCRAFetch(code, network)
    ELSE IF name = "INDEC" THEN INDECFetch(code, network)
    ELSE IF name = "YAHOOFX" THEN YahooFetch(code, network)
    ELSE BluelyticsFetch(code, network)

CallFetchTimeseries ==
    /\ Idle
    /\ \E name \in PROVIDERS, code \in ProviderSeriesCodes, network \in NetworkStates :
           \E outcome \in FetchTimeseries(name, code, network) :
               GateOutcome("fetch_timeseries", <<name, code, network>>, outcome)

----------------------------------------------------------------------------
(* app/watcher.py: check_and_alert *)

\* timedelta(days=30)
EmbiTrendWindow == 30

\* watcher.get_latest_embi_and_trend: (level, trend), each NONE or Some.
get_latest_embi_and_trend(conn) ==
    LET latest_result == Latest(conn, "EMBI_AR")
    IN IF latest_result = NONE THEN [level |-> NONE, trend |-> NONE]
       ELSE LET latest_ts == latest_result[1][1]
                latest_value == latest_result[1][2]
                trend_result == LatestUpTo(conn, "EMBI_AR", latest_ts - EmbiTrendWindow)
            IN [level |-> Some(latest_value),
                trend |-> IF trend_result # NONE
                          THEN Some(latest_value - trend_result[1][2])
                          ELSE NONE]

\* obj.name on a result object: AttributeError when it has no such field.
GetAttr(obj, name) ==
    IF name \in DOMAIN obj THEN Returns(obj[name]) ELSE Raises("AttributeError")

\* A ratio a / b in hundredths, rounded down: exact for < and >= against a
\* threshold in hundredths.
FloorHundredths(f) ==
    IF f[2] > 0 THEN (100 * f[1]) \div f[2] ELSE (-(100 * f[1])) \div (-f[2])

\* A ratio in hundredths, rounded up: exact for > and <= against a threshold.
CeilHundredths(f) == -FloorHundredths(<<-f[1], f[2]>>)

RECURSIVE Pow(_, _)
Pow(a, n) == IF n = 0 THEN 1 ELSE a * Pow(a, n - 1)

\* base ** exponent - 1 as a ratio, for an exponent that is a whole number.
CpiRate(rate) ==
    LET n == rate.exponent[1] \div rate.exponent[2]
    IN <<Pow(rate.base[1], n) - Pow(rate.base[2], n), Pow(rate.base[2], n)>>

\* f"{hedge_pct:.0%}"
FormatPercent0(hedge_pct) == ToString(hedge_pct) \o "%"

\* The except clause of check_and_alert: the error is printed and alerted.
CaughtError(exception, saved) ==
    [log |-> << <<"print", <<"Error during state check: ", exception>> >>,
                <<"send_alert", <<"Error during state check: ", exception>> >> >>,
     saved |-> saved]

\* The branch of check_and_alert after a successful evaluation.
CompareAndSave(evaluation, saved) ==
    LET current_state == evaluation.overall_state
        called == <<"evaluate_states">>
    IN IF saved = NONE
       THEN [log |-> << called, <<"save_state", current_state>>,
                        <<"print", <<"Initial state saved: ", current_state>> >> >>,
             saved |-> Some(current_state)]
       ELSE IF saved[1] # current_state
       THEN [log |-> << called,
                        <<"send_alert",
                          <<"State change detected: ", saved[1], " -> ", current_state,
                            ". Macro weight: ", FormatPercent(evaluation.macro_weight),
                            ", Hedge: ", FormatPercent0(evaluation.hedge_pct),
                            ". Action: ">> \o evaluation.action_note>>,
                        <<"save_state", current_state>> >>,
             saved |-> Some(current_state)]
       ELSE [log |-> << called,
                        <<"print", <<"State check: ", current_state, " (unchanged)">> >> >>,
             saved |-> saved]

\* The first exception among outcomes evaluated in order, "none" if none.
RECURSIVE FirstException(_)
FirstException(outcomes) ==
    IF outcomes = <<>> THEN "none"
    ELSE IF outcomes[1].exc # "none" THEN outcomes[1].exc
    ELSE FirstException(Tail(outcomes))

\* watcher.check_and_alert on database conn with the saved state saved: what
\* the run does, and the state saved after it.  evaluate_states is called
\* with its default exp_return = 0.12, vol = 0.18 and rf = 0.045.
check_and_alert(conn, saved) ==
    LET fx_gap_result == fx_gap_compute(conn)
        reserves_mom_result == reserves_momentum_compute(conn)
        cpi_3m_ann == get_latest_core_cpi_3m_ann(conn)
        embi == get_latest_embi_and_trend(conn)
        computed == FirstException(<<fx_gap_result, reserves_mom_result, cpi_3m_ann>>)
    IN IF computed # "none" THEN CaughtError(computed, saved)
       ELSE IF ~(/\ fx_gap_result.val[1] # NONE
                 /\ reserves_mom_result.val[1] # NONE
                 /\ cpi_3m_ann.val[1] # NONE
                 /\ embi.level # NONE
                 /\ embi.trend # NONE)
       THEN [log |-> << <<"print", <<"Insufficient data for state evaluation">> >> >>,
             saved |-> saved]
       ELSE LET fx_gap == GetAttr(fx_gap_result.val[1][1], "value")
                reserves_mom_4w == GetAttr(reserves_mom_result.val[1][1], "value")
                arguments == FirstException(<<fx_gap, reserves_mom_4w>>)
            IN IF arguments # "none" THEN CaughtError(arguments, saved)
               ELSE LET evaluation ==
                            evaluate_states(FloorHundredths(fx_gap.val[1]),
                                            CeilHundredths(reserves_mom_4w.val[1]),
                                            FloorHundredths(CpiRate(cpi_3m_ann.val[1][1])),
                                            embi.level[1], embi.trend[1],
                                            120, 180, 45)
                    IN IF evaluation.exc # "none"
                       THEN CaughtError(evaluation.exc, saved)
                       ELSE CompareAndSave(evaluation.val[1], saved)

\* One run of the watcher, on whatever the database holds at that time.
CheckAndAlert ==
    /\ Idle \/ gate_fn = "check_and_alert"
    /\ watch_runs < MaxRuns
    /\ \E conn \in WatcherDatabases :
           LET run == check_and_alert(conn, state_tracking)
           IN /\ fact_series' = conn
              /\ state_tracking' = run.saved
              /\ watch_log' = run.log
    /\ watch_runs' = watch_runs + 1
    /\ gate_fn' = "check_and_alert"
    /\ gate_args' = <<>>
    /\ gate_ret' = "none"
    /\ gate_exc' = "none"
    /\ UNCHANGED routerVars

----------------------------------------------------------------------------
(* data/refresh_all.py *)

\* The pullers in the order main runs them, by the name main records for a
\* failure.
Pullers ==
    <<"FX (USD/ARS)", "Reserves", "CPI", "EMBI (Resilient)",
      "EMBI Synthetic", "CDS", "NDF", "Policy Rate">>

\* The try blocks of main, one after the other: a puller that raises an
\* Exception is recorded in failed and the next one is run.
RECURSIVE RunPullers(_, _, _)
RunPullers(pullers, raising, done) ==
    IF pullers = <<>> THEN done
    ELSE RunPullers(Tail(pullers), raising,
                    [attempted |-> Append(done.attempted, pullers[1]),
                     failed |-> IF pullers[1] \in raising
                                THEN Append(done.failed, pullers[1])
                                ELSE done.failed])

\* Mutant: the first puller that raises ends the run.
refresh_all_main_StopsAtFailure(raising) ==
    LET first == {j \in 1..Len(Pullers) :
                     Pullers[j] \in raising /\ \A i \in 1..(j - 1) : Pullers[i] \notin raising}
    IN IF first = {}
       THEN [attempted |-> Pullers, failed |-> <<>>, exit_status |-> 0]
       ELSE LET j == CHOOSE i \in first : TRUE
            IN [attempted |-> SubSeq(Pullers, 1, j), failed |-> <<Pullers[j]>>,
                exit_status |-> 1]

\* refresh_all.main, given the pullers that raise: what was attempted, the
\* failures recorded, and the exit status of the process (sys.exit(1), or 0
\* when main returns).
refresh_all_main(raising) ==
    LET done == RunPullers(Pullers, raising, [attempted |-> <<>>, failed |-> <<>>])
    IN [attempted |-> done.attempted,
        failed |-> done.failed,
        exit_status |-> IF done.failed # <<>> THEN 1 ELSE 0]

CallRefreshAllMain ==
    /\ Idle
    /\ \E raising \in SUBSET {Pullers[j] : j \in 1..Len(Pullers)} :
           GateCall("refresh_all.main", <<raising>>, refresh_all_main(raising))

----------------------------------------------------------------------------
(* Properties of the gates *)

OverallCalled == gate_fn = "evaluate_overall_state"
EmbiCalled == gate_fn = "evaluate_embi_state"

\* The per-dimension states of the arguments of an evaluate_overall_state call.
ArgStates ==
    DimensionStates(gate_args[1], gate_args[2], gate_args[3], gate_args[4], gate_args[5])
NumRed == Cardinality({k \in 1..4 : ArgStates[k] = "RED"})

\* The GREEN rule on the arguments of an evaluate_overall_state call.
GreenRule ==
    /\ gate_args[1] < 15
    /\ gate_args[2] > 3
    /\ gate_args[3] < 25
    /\ (gate_args[4] < 1400 \/ gate_args[5] < -300)

\* C7: evaluate_overall_state returns GREEN iff fx_gap < 0.15, reserves_mom_4w
\* > 0.03, core_cpi_3m_ann < 0.25 and (embi_level < 1400 or embi_trend_30d <
\* -300).  The comparisons are strict: an input on a bound prevents GREEN.
C7_GreenIff ==
    OverallCalled =>
        /\ gate_ret = "GREEN" <=> GreenRule
        /\ ( \/ gate_args[1] = 15
             \/ gate_args[2] = 3
             \/ gate_args[3] = 25
             \/ (gate_args[4] = 1400 /\ gate_args[5] = -300) ) => gate_ret # "GREEN"

\* GREEN is returned just inside the bounds, EMBI being GREEN by its trend only.
C7_Witness ==
    /\ OverallCalled
    /\ gate_args = <<14, 4, 24, 1400, -301>>
    /\ gate_ret = "GREEN"

\* C8: evaluate_overall_state returns RED iff the GREEN rule fails and all four
\* per-dimension classifiers return RED.
C8_RedIff ==
    OverallCalled =>
        (gate_ret = "RED" <=> (~GreenRule /\ \A k \in 1..4 : ArgStates[k] = "RED"))

\* The all-RED scenario (0.40, -0.05, 0.50, 1800, 200) returns RED.
C8_Witness ==
    /\ OverallCalled
    /\ gate_args = <<40, -5, 50, 1800, 200>>
    /\ gate_ret = "RED"

\* C9: the overall state is no worst-of-four reduction.  When at least one but
\* not all four per-dimension states are RED, the overall state is YELLOW.
C9_SomeRedIsYellow ==
    (OverallCalled /\ NumRed >= 1 /\ NumRed < 4) => gate_ret = "YELLOW"

\* fx_gap = 0.30 is RED, the other three dimensions are GREEN: YELLOW.
C9_Witness ==
    /\ OverallCalled
    /\ gate_args = <<30, 5, 20, 1300, 0>>
    /\ ArgStates = <<"RED", "GREEN", "GREEN", "GREEN">>
    /\ gate_ret = "YELLOW"

\* C10: evaluate_embi_state returns GREEN iff level < 1400 or trend < -300;
\* otherwise YELLOW iff level < 1600 or trend < -100; otherwise RED.  The bounds
\* are strict: level 1400 with trend -300 is not GREEN, and level 1600 with
\* trend -100 is RED.
C10_EmbiBands ==
    EmbiCalled =>
        LET level == gate_args[1]
            trend == gate_args[2]
            green == level < 1400 \/ trend < -300
            soft == level < 1600 \/ trend < -100
        IN /\ gate_ret = "GREEN" <=> green
           /\ gate_ret = "YELLOW" <=> (~green /\ soft)
           /\ gate_ret = "RED" <=> (~green /\ ~soft)
           /\ (trend = -300 /\ level >= 1400) => gate_ret # "GREEN"
           /\ (level = 1400 /\ trend >= -300) => gate_ret # "GREEN"
           /\ (level = 1600 /\ trend = -100) => gate_ret = "RED"

\* Level 1400 with trend exactly -300 is YELLOW: neither bound gives GREEN.
C10_Witness ==
    /\ EmbiCalled
    /\ gate_args = <<1400, -300>>
    /\ gate_ret = "YELLOW"

\* C11: evaluate_fx_gap_state is GREEN iff fx_gap < 0.15, YELLOW iff
\* 0.15 <= fx_gap < 0.25, and RED iff fx_gap >= 0.25.
C11_FxGapBands ==
    gate_fn = "evaluate_fx_gap_state" =>
        LET x == gate_args[1]
        IN /\ gate_ret = "GREEN" <=> x < 15
           /\ gate_ret = "YELLOW" <=> (15 <= x /\ x < 25)
           /\ gate_ret = "RED" <=> x >= 25

\* fx_gap = 0.15 is YELLOW.
C11_Witness ==
    /\ gate_fn = "evaluate_fx_gap_state"
    /\ gate_args = <<15>>
    /\ gate_ret = "YELLOW"

\* C12: evaluate_reserves_momentum_state is GREEN iff reserves_mom_4w > 0.03,
\* YELLOW iff 0.0 < reserves_mom_4w <= 0.03, and RED iff reserves_mom_4w <= 0.0.
C12_ReservesBands ==
    gate_fn = "evaluate_reserves_momentum_state" =>
        LET x == gate_args[1]
        IN /\ gate_ret = "GREEN" <=> x > 3
           /\ gate_ret = "YELLOW" <=> (0 < x /\ x <= 3)
           /\ gate_ret = "RED" <=> x <= 0

\* reserves_mom_4w = 0.0 is RED.
C12_Witness ==
    /\ gate_fn = "evaluate_reserves_momentum_state"
    /\ gate_args = <<0>>
    /\ gate_ret = "RED"

\* C13: evaluate_cpi_state is GREEN iff core_cpi_3m_ann < 0.25, YELLOW iff
\* 0.25 <= core_cpi_3m_ann < 0.35, and RED iff core_cpi_3m_ann >= 0.35.
C13_CpiBands ==
    gate_fn = "evaluate_cpi_state" =>
        LET x == gate_args[1]
        IN /\ gate_ret = "GREEN" <=> x < 25
           /\ gate_ret = "YELLOW" <=> (25 <= x /\ x < 35)
           /\ gate_ret = "RED" <=> x >= 35

\* core_cpi_3m_ann = 0.35 is RED.
C13_Witness ==
    /\ gate_fn = "evaluate_cpi_state"
    /\ gate_args = <<35>>
    /\ gate_ret = "RED"

----------------------------------------------------------------------------
(* Properties of the Sharpe engine *)

StatesCalled == gate_fn = "evaluate_states"
StatesReturned == StatesCalled /\ gate_exc = "none"

\* C14: the hedge percentage is binary and gated only by the overall state:
\* evaluate_states returns hedge_pct = 0.0 when overall_state is GREEN and
\* hedge_pct = 0.5 when it is YELLOW or RED, and never another value.
C14_HedgeBinary ==
    StatesReturned =>
        /\ gate_ret.overall_state = "GREEN" => gate_ret.hedge_pct = 0
        /\ gate_ret.overall_state \in {"YELLOW", "RED"} => gate_ret.hedge_pct = 50
        /\ gate_ret.hedge_pct \in {0, 50}

\* An overall RED is hedged by half.
C14_Witness ==
    /\ StatesReturned
    /\ gate_ret.overall_state = "RED"
    /\ gate_ret.hedge_pct = 50

\* Two reference gate inputs, an all-GREEN one and an all-RED one.  Agreeing
\* with both for every gate input is agreeing for every pair of gate inputs.
ReferenceGateInputs == {<<10, 5, 20, 1300, 0>>, <<25, 0, 35, 1600, 0>>}

\* evaluate_states on other gate inputs g, with the exp_return, vol and rf of
\* the call made.
WithGateInputs(g) ==
    evaluate_states(g[1], g[2], g[3], g[4], g[5],
                    gate_args[6], gate_args[7], gate_args[8])

C16_PositionSizeInUnitInterval ==
    /\ gate_fn = "sigmoid_position_size" =>
           gate_exc = "none" /\ 0 <= gate_ret /\ gate_ret <= Unit
    /\ gate_fn = "evaluate_states" =>
           /\ gate_exc = "none"
           /\ 0 <= gate_ret.macro_weight
           /\ gate_ret.macro_weight <= Unit

\* C17: compute_sharpe returns exactly 0.0 whenever vol == 0, and otherwise
\* returns (exp_return - rf) / vol.
C17_SharpeFormula ==
    gate_fn = "compute_sharpe" =>
        LET exp_return == gate_args[1]
            vol == gate_args[2]
            rf == gate_args[3]
        IN /\ gate_exc = "none"
           /\ gate_ret[2] > 0
           /\ vol = 0 => gate_ret = <<0, 1>>
           /\ vol # 0 => gate_ret[1] * vol = (exp_return - rf) * gate_ret[2]

\* Zero volatility with a non-zero excess return gives 0.0.
C17_Witness ==
    /\ gate_fn = "compute_sharpe"
    /\ gate_args = <<120, 0, 45>>
    /\ gate_ret = <<0, 1>>

\* The keys of the returned dimension_states whose state is RED.
RedKeys ==
    {gate_ret.dimension_states[j][1] :
        j \in {i \in 1..4 : gate_ret.dimension_states[i][2] = "RED"}}

\* C23: the action note returned by evaluate_states begins with the name of
\* the overall state, and when the overall state is YELLOW or RED and at least
\* one dimension is RED, the note lists exactly the dimensions whose state in
\* dimension_states is RED, by their key names fx_gap, reserves_momentum,
\* core_cpi and embi, and no dimension that is not RED.
C23_NoteListsRedDimensions ==
    StatesReturned =>
        /\ gate_ret.action_note[1] = gate_ret.overall_state
        /\ {gate_ret.dimension_states[j][1] : j \in 1..4} =
               {"fx_gap", "reserves_momentum", "core_cpi", "embi"}
        /\ (gate_ret.overall_state \in {"YELLOW", "RED"} /\ RedKeys # {}) =>
               \A j \in 1..4 :
                   Contains(gate_ret.action_note, gate_ret.dimension_states[j][1])
                       <=> gate_ret.dimension_states[j][2] = "RED"

\* An overall YELLOW with a RED and a YELLOW dimension: only the RED one is
\* named.
C23_Witness ==
    /\ StatesReturned
    /\ gate_ret.overall_state = "YELLOW"
    /\ gate_ret.dimension_states[1] = <<"fx_gap", "YELLOW">>
    /\ gate_ret.dimension_states[3] = <<"core_cpi", "RED">>
    /\ Contains(gate_ret.action_note, "core_cpi")
    /\ ~Contains(gate_ret.action_note, "fx_gap")

\* C27: the overall state computed by evaluate_states is GREEN if and only if
\* all four entries of the returned dimension_states are GREEN; the same holds
\* of evaluate_overall_state against the per-dimension classifiers.
C27_GreenIffAllDimensionsGreen ==
    /\ StatesReturned =>
           (gate_ret.overall_state = "GREEN" <=>
                \A j \in 1..4 : gate_ret.dimension_states[j][2] = "GREEN")
    /\ OverallCalled =>
           (gate_ret = "GREEN" <=> \A j \in 1..4 : ArgStates[j] = "GREEN")

\* EMBI is GREEN by its trend alone, at a level of 1400, and the overall state
\* is GREEN.
C27_Witness ==
    /\ StatesReturned
    /\ gate_args[4] = 1400
    /\ gate_args[5] = -400
    /\ gate_ret.overall_state = "GREEN"
    /\ gate_ret.dimension_states[4] = <<"embi", "GREEN">>

\* The order GREEN < YELLOW < RED.
Severity(state) == IF state = "GREEN" THEN 0 ELSE IF state = "YELLOW" THEN 1 ELSE 2

\* The overall state of the call made with argument j replaced by v.
OverallWith(j, v) ==
    LET a == [gate_args EXCEPT ![j] = v]
    IN evaluate_overall_state(a[1], a[2], a[3], a[4], a[5])

\* C29: evaluate_overall_state is monotone in each input: with the other four
\* fixed, raising fx_gap, lowering reserves_mom_4w, raising core_cpi_3m_ann,
\* raising embi_level or raising embi_trend_30d never moves the overall state
\* to a better level in the order GREEN < YELLOW < RED.
C29_OverallStateMonotone ==
    OverallCalled =>
        /\ \A v \in FxGapInputs :
               v > gate_args[1] => Severity(OverallWith(1, v)) >= Severity(gate_ret)
        /\ \A v \in ReservesInputs :
               v < gate_args[2] => Severity(OverallWith(2, v)) >= Severity(gate_ret)
        /\ \A v \in CpiInputs :
               v > gate_args[3] => Severity(OverallWith(3, v)) >= Severity(gate_ret)
        /\ \A v \in EmbiLevelInputs :
               v > gate_args[4] => Severity(OverallWith(4, v)) >= Severity(gate_ret)
        /\ \A v \in EmbiTrendInputs :
               v > gate_args[5] => Severity(OverallWith(5, v)) >= Severity(gate_ret)

\* A GREEN call that one step of reserves momentum, from 0.04 to 0.03, turns
\* YELLOW.
C29_Witness ==
    /\ OverallCalled
    /\ gate_args[2] = 4
    /\ gate_ret = "GREEN"
    /\ OverallWith(2, 3) = "YELLOW"

----------------------------------------------------------------------------
(* Properties of the feature computations *)

RowsOf(series_id) == {r \in fact_series : r[1] = series_id}
FxGapCalled == gate_fn = "fx_gap.compute"
ReservesCalled == gate_fn = "reserves_momentum.compute"

\* C18: features.fx_gap.compute returns None, and does not raise, whenever
\* the parallel rate has no persisted observation or the official rate has
\* none in either its primary or its fallback series.
C18_MissingSideGivesNone ==
    (/\ FxGapCalled
     /\ \/ RowsOf("USDARS_PARALLEL") = {}
        \/ RowsOf("USDARS_OFFICIAL") \cup RowsOf("USDARS_OFFICIAL_BLUELYTICS") = {})
        => gate_exc = "none" /\ gate_ret = NONE

\* The official observations the FX gap may draw on: those of the primary
\* series, or of the fallback when the primary has none.
OfficialRows ==
    IF RowsOf("USDARS_OFFICIAL") # {} THEN RowsOf("USDARS_OFFICIAL")
    ELSE RowsOf("USDARS_OFFICIAL_BLUELYTICS")

\* C19: the FX gap is (parallel - official) / official, from the most recent
\* parallel observation and the most recent official observation whose
\* timestamp is at or before the parallel one's; a later official observation
\* is never used.
C19_OfficialNotAfterParallel ==
    (FxGapCalled /\ gate_exc = "none" /\ gate_ret # NONE /\ gate_ret[1].gap # NONE) =>
        LET result == gate_ret[1]
            gap == result.gap[1]
        IN \E p \in RowsOf("USDARS_PARALLEL"), o \in OfficialRows :
              /\ \A r \in RowsOf("USDARS_PARALLEL") : r[2] <= p[2]
              /\ o[2] <= p[2]
              /\ \A r \in OfficialRows : r[2] <= p[2] => r[2] <= o[2]
              /\ result.official_ts = Some(o[2])
              /\ gap[1] * o[3] = (p[3] - o[3]) * gap[2]

----------------------------------------------------------------------------
(* Properties of the watcher *)

CpiCalled == gate_fn = "get_latest_core_cpi_3m_ann"

\* The two most recent CPI_CORE observations lie less than a day apart.
CpiSameDay ==
    \E a, b \in RowsOf("CPI_CORE") :
        /\ a # b
        /\ \A r \in RowsOf("CPI_CORE") \ {a} : r[2] <= b[2]
        /\ b[2] <= a[2]
        /\ Days(a[2] - b[2]) = 0

\* C21: get_latest_core_cpi_3m_ann returns None when fewer than two CPI_CORE
\* observations exist or when the two most recent ones yield months == 0, and
\* it never divides by zero for any persisted data.
C21_CpiNeverDividesByZero ==
    CpiCalled =>
        /\ (Cardinality(RowsOf("CPI_CORE")) < 2 \/ CpiSameDay) =>
               gate_exc = "none" /\ gate_ret = NONE
        /\ gate_exc # "ZeroDivisionError"

WatcherRan == gate_fn = "check_and_alert"
Logged(kind) == \E j \in 1..Len(watch_log) : watch_log[j][1] = kind
SaidInsufficient ==
    watch_log = << <<"print", <<"Insufficient data for state evaluation">> >> >>

\* The five inputs of the state evaluation, as the database provides them.
FxGapAvailable ==
    /\ RowsOf("USDARS_PARALLEL") # {}
    /\ RowsOf("USDARS_OFFICIAL") \cup RowsOf("USDARS_OFFICIAL_BLUELYTICS") # {}
ReservesAvailable == reserves_momentum_compute(fact_series).val # <<NONE>>
CpiAvailable == get_latest_core_cpi_3m_ann(fact_series).val # <<NONE>>
EmbiLevelAvailable == get_latest_embi_and_trend(fact_series).level # NONE
EmbiTrendAvailable == get_latest_embi_and_trend(fact_series).trend # NONE
AllAvailable ==
    /\ FxGapAvailable
    /\ ReservesAvailable
    /\ CpiAvailable
    /\ EmbiLevelAvailable
    /\ EmbiTrendAvailable

\* C24: check_and_alert invokes evaluate_states only when all five inputs are
\* available; when any of them is unavailable it reports insufficient data,
\* sends no alert, raises no error, and leaves the saved last overall state
\* unchanged.
C24_InsufficientDataIsQuiet ==
    [][ (WatcherRan' /\ watch_runs' # watch_runs) =>
            /\ Logged("evaluate_states")' => AllAvailable'
            /\ ~AllAvailable' =>
                   /\ SaidInsufficient'
                   /\ ~Logged("send_alert")'
                   /\ state_tracking' = state_tracking ]_vars

\* The run sent a state-change alert.
StateChangeAlert ==
    \E j \in 1..Len(watch_log) :
        /\ watch_log[j][1] = "send_alert"
        /\ watch_log[j][2][1] = "State change detected: "

\* C26: across runs with sufficient data, a run with no saved state saves the
\* current overall state without sending a state-change alert; a run with a
\* saved state sends a state-change alert if and only if the saved state
\* differs from the current overall state; and after every such run the saved
\* state equals the current overall state.
CurrentOverallState ==
    LET fx == Latest(fact_series, "USDARS_PARALLEL")[1][2]
        official == Latest(fact_series, "USDARS_OFFICIAL")[1][2]
        evaluation ==
            evaluate_states(FloorHundredths(<<fx - official, official>>),
                            CeilHundredths(reserves_momentum_compute(fact_series).val[1][1].value),
                            FloorHundredths(CpiRate(get_latest_core_cpi_3m_ann(fact_series).val[1][1])),
                            get_latest_embi_and_trend(fact_series).level[1],
                            get_latest_embi_and_trend(fact_series).trend[1],
                            120, 180, 45)
    IN evaluation.val[1].overall_state

C26_AlertIffStateChanged ==
    [][ (WatcherRan' /\ watch_runs' # watch_runs /\ AllAvailable') =>
            /\ state_tracking = NONE => ~StateChangeAlert'
            /\ state_tracking # NONE =>
                   (StateChangeAlert' <=> state_tracking[1] # CurrentOverallState')
            /\ state_tracking' = Some(CurrentOverallState') ]_vars

----------------------------------------------------------------------------
(* Properties of the providers *)

\* C22: for every concrete provider (BCRA, INDEC, Yahoo FX, Bluelytics),
\* fetch_timeseries with a series code that is not in the provider's mapping
\* fails with a ProviderError and with no other exception type, whatever the
\* state of the network.
C22_UnknownCodeIsProviderError ==
    (gate_fn = "fetch_timeseries" /\ gate_args[2] \notin ProviderMapping(gate_args[1]))
        => gate_exc = "ProviderError"

----------------------------------------------------------------------------
(* Properties of the refresh script *)

RefreshCalled == gate_fn = "refresh_all.main"

\* C30: refresh_all.main attempts every puller in its fixed sequence (FX,
\* reserves, CPI, EMBI resilient, EMBI synthetic, CDS, NDF, policy rate) even
\* when earlier pullers raise, records the name of each puller that raised, and
\* ends the process with exit status 1 if and only if at least one puller
\* raised.
C30_RefreshAttemptsAll ==
    RefreshCalled =>
        /\ gate_ret.attempted =
               <<"FX (USD/ARS)", "Reserves", "CPI", "EMBI (Resilient)",
                 "EMBI Synthetic", "CDS", "NDF", "Policy Rate">>
        /\ {gate_ret.failed[j] : j \in 1..Len(gate_ret.failed)} = gate_args[1]
        /\ Len(gate_ret.failed) = Cardinality(gate_args[1])
        /\ gate_ret.exit_status = 1 <=> gate_args[1] # {}
        /\ gate_ret.exit_status \in {0, 1}

\* The first and the last puller raise; the six between are still attempted.
C30_Witness ==
    /\ RefreshCalled
    /\ gate_args[1] = {"FX (USD/ARS)", "Policy Rate"}
    /\ Len(gate_ret.attempted) = 8
    /\ gate_ret.failed = <<"FX (USD/ARS)", "Policy Rate">>
    /\ gate_ret.exit_status = 1

----------------------------------------------------------------------------
(* Specifications *)

Init ==
    /\ pc = "idle"
    /\ series_code = ""
    /\ provider_names = <<>>
    /\ idx = 1
    /\ last_error = NONE
    /\ ret = NONE
    /\ exc = NONE
    /\ calls = <<>>
    /\ gate_fn = "none"
    /\ gate_args = <<>>
    /\ gate_ret = "none"
    /\ gate_exc = "none"
    /\ fact_series = {}
    /\ state_tracking = NONE
    /\ watch_log = <<>>
    /\ watch_runs = 0

Next ==
    \/ CallFetchSeries
    \/ SkipUnregistered
    \/ ProviderReturnsData
    \/ ProviderReturnsEmpty
    \/ ProviderRaisesProviderError
    \/ ProviderRaisesException
    \/ RaiseAggregate
    \/ CallEvaluateFxGapState
    \/ CallEvaluateReservesMomentumState
    \/ CallEvaluateCpiState
    \/ CallEvaluateEmbiState
    \/ CallEvaluateOverallState
    \/ CallComputeSharpe
    \/ CallSigmoidPositionSize
    \/ CallEvaluateStates
    \/ CallFxGapCompute
    \/ CallReservesMomentumCompute
    \/ CallGetLatestCoreCpi
    \/ CallFetchTimeseries
    \/ CheckAndAlert
    \/ CallRefreshAllMain

Spec == Init /\ [][Next]_vars

=============================================================================
